---- MODULE Spec2Model ----
(***************************************************************************)
(* A model of orgize's lossless Org-mode parser entry point                *)
(* (src/syntax/document.rs), of the typed accessors of the AST layer       *)
(* (src/ast/headline.rs, src/ast/drawer.rs) and of the language server's   *)
(* completion provider (orgize-lsp/src/completion.rs).                     *)
(*                                                                         *)
(* Text is a sequence of one-character strings; a byte offset is an index  *)
(* into that sequence.  A tree element is either a token                   *)
(* [kind, text] or a node [kind, children, len].                           *)
(***************************************************************************)
EXTENDS Integers, Sequences, FiniteSets, TLC

VARIABLES
    s,          \* parser: the whole input handed to document_node
    i,          \* parser: the remaining input (the Input slice)
    children,   \* parser: document_node_base's `children` vector
    pc,         \* parser: position inside document_node_base
    root,       \* parser: the returned element (NoElem before the return)
    iters,      \* parser: iterations of the headline loop run so far
    tree,       \* AST layer: the syntax node an accessor is called on
    ret,        \* AST layer: the last accessor call and what it returned
    documents,  \* language server: backend.documents, uri -> text
    response    \* language server: the last completion request and its response

parserVars == <<s, i, children, pc, root, iters>>
astVars == <<tree, ret>>
lspVars == <<documents, response>>
vars == <<s, i, children, pc, root, iters, tree, ret, documents, response>>

(***************************************************************************)
(* Bounds of the model.                                                    *)
(***************************************************************************)
\* inputs made of at most MaxLines lines drawn from Lines
MaxLines == 3
\* inputs made of at most MaxLen characters drawn from Chars
MaxLen == 4

NL == "\n"

Chars == {"*", " ", "a", NL}

Lines ==
    { <<>>,
      <<"a">>,
      <<"*", "a">>,
      <<"*", " ", "a">>,
      <<"*", "*", " ", "a">>,
      <<"*", "*", "*", " ", "a">>,
      <<":", "P", "R", "O", "P", "E", "R", "T", "I", "E", "S", ":">>,
      <<":", "K", ":", " ", "v">>,
      <<":", "E", "N", "D", ":">> }

RECURSIVE TerminatedLines(_)
\* every text of at most n lines of Lines, each ended by a newline
TerminatedLines(n) ==
    IF n = 0 THEN { <<>> }
    ELSE LET shorter == TerminatedLines(n - 1) IN
         shorter \cup { l \o <<NL>> \o t : l \in Lines, t \in shorter }

\* the same texts, and each of them without its last newline
LineInputs ==
    LET T == TerminatedLines(MaxLines) IN
    T \cup { SubSeq(t, 1, Len(t) - 1) : t \in T \ { <<>> } }

RECURSIVE CharInputs(_)
\* every text of at most n characters of Chars
CharInputs(n) ==
    IF n = 0 THEN { <<>> }
    ELSE LET shorter == CharInputs(n - 1) IN
         shorter \cup { <<c>> \o t : c \in Chars, t \in shorter }

Inputs == LineInputs \cup CharInputs(MaxLen)

(***************************************************************************)
(* Tree model.                                                             *)
(***************************************************************************)
NoElem == [kind |-> "NONE", text |-> <<>>]

\* no call made yet
NoCall == [op |-> "none"]

token(kind, text) == [kind |-> kind, text |-> text]

IsNode(e) == "children" \in DOMAIN e

ElemLen(e) == IF IsNode(e) THEN e.len ELSE Len(e.text)

RECURSIVE SumLen(_)
SumLen(es) == IF es = <<>> THEN 0 ELSE ElemLen(Head(es)) + SumLen(Tail(es))

\* a branch caches the sum of its children's lengths
node(kind, es) == [kind |-> kind, children |-> es, len |-> SumLen(es)]

RECURSIVE Text(_)
RECURSIVE TextOfAll(_)
\* depth-first concatenation of the leaves' text
Text(e) == IF IsNode(e) THEN TextOfAll(e.children) ELSE e.text
TextOfAll(es) == IF es = <<>> THEN <<>> ELSE Text(Head(es)) \o TextOfAll(Tail(es))

Drop(t, n) == SubSeq(t, n + 1, Len(t))
Take(t, n) == SubSeq(t, 1, n)

Ok(rest, out) == [ok |-> TRUE, rest |-> rest, out |-> out]
Err(t) == [ok |-> FALSE, rest |-> t, out |-> NoElem]

\* nom's opt: a mismatch becomes a success that consumed nothing
opt(r, t) == IF r.ok THEN [ok |-> TRUE, rest |-> r.rest, out |-> <<r.out>>]
             ELSE [ok |-> TRUE, rest |-> t, out |-> <<>>]

(***************************************************************************)
(* Grammar.  A parser takes the remaining input and returns a result       *)
(* [ok, rest, out]; each stage hands its values on as parameters.          *)
(***************************************************************************)
\* r with element e put in front of its output
PrependOut(e, r) == IF r.ok THEN Ok(r.rest, <<e>> \o r.out) ELSE r

\* length of the first line of t, its newline included
LineLen(t) ==
    IF \E k \in 1..Len(t) : t[k] = NL
    THEN CHOOSE k \in 1..Len(t) : t[k] = NL /\ \A j \in 1..(k - 1) : t[j] # NL
    ELSE Len(t)

\* the first line of t without its newline
LineBody(t) ==
    IF \E k \in 1..Len(t) : t[k] = NL THEN Take(t, LineLen(t) - 1) ELSE t

IsBlankLine(t) ==
    /\ t # <<>>
    /\ \A k \in 1..Len(t) : t[k] = " " \/ \E j \in 1..k : t[j] = NL

RECURSIVE blank_lines(_)
blank_lines(t) ==
    IF ~IsBlankLine(t) THEN Ok(t, <<>>)
    ELSE PrependOut(token("BLANK_LINE", Take(t, LineLen(t))),
                    blank_lines(Drop(t, LineLen(t))))

\* length of the longest prefix of t made of the character c
RunLen(t, c) ==
    IF \A k \in 1..Len(t) : t[k] = c THEN Len(t)
    ELSE (CHOOSE k \in 1..Len(t) : t[k] # c /\ \A j \in 1..(k - 1) : t[j] = c) - 1

\* at least one star, followed by whitespace
headline_stars(t) ==
    IF RunLen(t, "*") >= 1 /\ Len(t) > RunLen(t, "*") /\ t[RunLen(t, "*") + 1] = " "
    THEN Ok(Drop(t, RunLen(t, "*")), token("HEADLINE_STARS", Take(t, RunLen(t, "*"))))
    ELSE Err(t)

\* the newline token of a line, none at the end of input
EndOfLine(t) == IF t # <<>> /\ t[1] = NL THEN <<token("NEW_LINE", <<NL>>)>> ELSE <<>>

\* ":NAME:" alone on the first line of t
MarkerLine(t, name) == LineBody(t) = <<":">> \o name \o <<":">>

MarkerNode(kind, t, name) ==
    node(kind, << token("COLON", <<":">>), token("TEXT", name), token("COLON", <<":">>) >>
               \o EndOfLine(Drop(t, Len(name) + 2)))

\* length of KEY in a line body that starts with ":KEY:", 0 if it does not
KeyLen(body) ==
    IF Len(body) >= 3 /\ body[1] = ":" /\ body[2] # ":"
       /\ \E k \in 3..Len(body) : body[k] = ":"
    THEN IF \E k \in 3..Len(body) :
              body[k] = ":" /\ \A j \in 2..(k - 1) : body[j] \notin {":", " "}
         THEN (CHOOSE k \in 3..Len(body) :
                   body[k] = ":" /\ \A j \in 2..(k - 1) : body[j] \notin {":", " "}) - 2
         ELSE 0
    ELSE 0

\* the tokens of ":KEY:" followed by after, the rest of the line body
PropertyTokens(key, after) ==
    << token("COLON", <<":">>), token("TEXT", key), token("COLON", <<":">>) >>
    \o (IF after = <<>> THEN <<>> ELSE <<token("WHITESPACE", <<" ">>)>>)
    \o (IF Len(after) <= 1 THEN <<>> ELSE <<token("TEXT", Tail(after))>>)

PropertyOfBody(t, body, k) ==
    IF k = 0 \/ (Len(body) > k + 2 /\ body[k + 3] # " ") THEN Err(t)
    ELSE Ok(Drop(t, LineLen(t)),
            node("NODE_PROPERTY",
                 PropertyTokens(SubSeq(body, 2, k + 1), Drop(body, k + 2))
                 \o EndOfLine(Drop(t, Len(body)))))

\* ":KEY: VALUE" or ":KEY:" on the first line of t
node_property_node(t) == PropertyOfBody(t, LineBody(t), KeyLen(LineBody(t)))

RECURSIVE node_property_lines(_)

PropertiesAfter(p) == IF ~p.ok THEN p ELSE PrependOut(p.out, node_property_lines(p.rest))

\* the property lines up to the closing line or the end of input
node_property_lines(t) ==
    IF t = <<>> THEN Ok(t, <<>>)
    ELSE IF MarkerLine(t, <<"E", "N", "D">>)
    THEN Ok(Drop(t, LineLen(t)), <<MarkerNode("DRAWER_END", t, <<"E", "N", "D">>)>>)
    ELSE PropertiesAfter(node_property_node(t))

PROPERTIES == <<"P", "R", "O", "P", "E", "R", "T", "I", "E", "S">>

PropertyDrawerOf(begin, r) ==
    IF ~r.ok THEN r ELSE Ok(r.rest, node("PROPERTY_DRAWER", <<begin>> \o r.out))

property_drawer_node(t) ==
    IF ~MarkerLine(t, PROPERTIES) THEN Err(t)
    ELSE PropertyDrawerOf(MarkerNode("DRAWER_BEGIN", t, PROPERTIES),
                          node_property_lines(Drop(t, LineLen(t))))

RECURSIVE SectionLen(_)
\* length of the text before the next headline
SectionLen(t) ==
    IF t = <<>> \/ headline_stars(t).ok THEN 0
    ELSE LineLen(t) + SectionLen(Drop(t, LineLen(t)))

RECURSIVE ParagraphLen(_)
\* length of the lines up to the next blank line
ParagraphLen(t) ==
    IF t = <<>> \/ IsBlankLine(t) THEN 0
    ELSE LineLen(t) + ParagraphLen(Drop(t, LineLen(t)))

RECURSIVE SectionElements(_)
SectionElements(t) ==
    IF t = <<>> THEN <<>>
    ELSE IF IsBlankLine(t)
    THEN <<token("BLANK_LINE", Take(t, LineLen(t)))>>
         \o SectionElements(Drop(t, LineLen(t)))
    ELSE <<node("PARAGRAPH", <<token("TEXT", Take(t, ParagraphLen(t)))>>)>>
         \o SectionElements(Drop(t, ParagraphLen(t)))

SectionOf(t, n) ==
    IF n = 0 THEN Err(t) ELSE Ok(Drop(t, n), node("SECTION", SectionElements(Take(t, n))))

section_node(t) == SectionOf(t, SectionLen(t))

\* the title and the end of the headline's first line, after the whitespace
TitleTokens(title, t) ==
    Ok(Drop(t, Len(EndOfLine(t))),
       (IF title = <<>> THEN <<>>
        ELSE <<node("HEADLINE_TITLE", <<token("TEXT", title)>>)>>)
       \o EndOfLine(t))

\* the whitespace after the stars, the title and the newline
TitleLine(t, ws) ==
    PrependOut(token("WHITESPACE", Take(t, ws)),
               TitleTokens(LineBody(Drop(t, ws)), Drop(t, ws + Len(LineBody(Drop(t, ws))))))

RECURSIVE headline_node(_)
RECURSIVE NestedHeadlines(_, _)

NestedAfter(h, current_level) ==
    IF ~h.ok THEN h ELSE PrependOut(h.out, NestedHeadlines(h.rest, current_level))

\* the headlines strictly deeper than current_level that follow
NestedHeadlines(t, current_level) ==
    IF t = <<>> \/ RunLen(t, "*") <= current_level THEN Ok(t, <<>>)
    ELSE NestedAfter(headline_node(t), current_level)

HeadlineOf(acc, nested) ==
    IF ~nested.ok THEN nested ELSE Ok(nested.rest, node("HEADLINE", acc \o nested.out))

HeadlineNested(current_level, acc, section) ==
    HeadlineOf(acc \o section.out, NestedHeadlines(section.rest, current_level))

HeadlineSection(current_level, acc, drawer) ==
    HeadlineNested(current_level, acc \o drawer.out, opt(section_node(drawer.rest), drawer.rest))

HeadlineDrawer(current_level, acc, line) ==
    HeadlineSection(current_level, acc \o line.out,
                    opt(property_drawer_node(line.rest), line.rest))

HeadlineAfterStars(stars) ==
    IF ~stars.ok THEN stars
    ELSE HeadlineDrawer(Len(stars.out.text), <<stars.out>>,
                        TitleLine(stars.rest, RunLen(stars.rest, " ")))

headline_node(t) == HeadlineAfterStars(headline_stars(t))

(***************************************************************************)
(* document_node_base, one action per statement group.                     *)
(***************************************************************************)
InitParser ==
    /\ s \in Inputs
    /\ i = s
    /\ children = <<>>
    /\ pc = "entry"
    /\ root = NoElem
    /\ iters = 0
    /\ tree = NoElem
    /\ ret = NoCall
    /\ documents = <<>>
    /\ response = NoCall

\* if input.is_empty() { return Ok((input, node(DOCUMENT, []))) }
DocEmpty ==
    /\ pc = "entry"
    /\ IF i = <<>>
       THEN /\ root' = node("DOCUMENT", <<>>)
            /\ pc' = "done"
       ELSE /\ root' = root
            /\ pc' = "property_drawer"
    /\ children' = <<>>
    /\ UNCHANGED <<s, i, iters>>
    /\ UNCHANGED <<astVars, lspVars>>

\* the optional element r.out is pushed and the input advances to r.rest
PushOpt(r) ==
    /\ i' = r.rest
    /\ children' = children \o r.out

\* opt(property_drawer_node)(input)?, pushed when present
DocPropertyDrawer ==
    /\ pc = "property_drawer"
    /\ PushOpt(opt(property_drawer_node(i), i))
    /\ pc' = "blank_lines"
    /\ UNCHANGED <<s, root, iters>>
    /\ UNCHANGED <<astVars, lspVars>>

\* mutant: the blank lines are parsed and never added to children
ExtendPreBlankDropped(r) ==
    /\ i' = r.rest
    /\ children' = children
    /\ IF r.rest = <<>>
       THEN /\ root' = node("DOCUMENT", children)
            /\ pc' = "done"
       ELSE /\ root' = root
            /\ pc' = "section"

\* mutant: the blank lines are put in front of children instead of behind
ExtendPreBlankPrepended(r) ==
    /\ i' = r.rest
    /\ children' = r.out \o children
    /\ IF r.rest = <<>>
       THEN /\ root' = node("DOCUMENT", r.out \o children)
            /\ pc' = "done"
       ELSE /\ root' = root
            /\ pc' = "section"

\* children.extend(pre_blank); return the document when the input is empty
ExtendPreBlank(r) ==
    /\ i' = r.rest
    /\ children' = children \o r.out
    /\ IF r.rest = <<>>
       THEN /\ root' = node("DOCUMENT", children \o r.out)
            /\ pc' = "done"
       ELSE /\ root' = root
            /\ pc' = "section"

\* blank_lines(input)?, then the extend and the early return
DocBlankLines ==
    /\ pc = "blank_lines"
    /\ ExtendPreBlank(blank_lines(i))
    /\ UNCHANGED <<s, iters>>
    /\ UNCHANGED <<astVars, lspVars>>

\* mutant: the leading section is never parsed
DocSectionSkipped ==
    /\ pc = "section"
    /\ pc' = "loop"
    /\ UNCHANGED <<s, i, children, root, iters>>
    /\ UNCHANGED <<astVars, lspVars>>

\* the children of the optional element r.out are pushed, not the element
ExtendOpt(r) ==
    /\ i' = r.rest
    /\ children' = children \o (IF r.out = <<>> THEN <<>> ELSE r.out[1].children)

\* mutant: the section's paragraphs are pushed without their SECTION node
DocSectionFlattened ==
    /\ pc = "section"
    /\ ExtendOpt(opt(section_node(i), i))
    /\ pc' = "loop"
    /\ UNCHANGED <<s, root, iters>>
    /\ UNCHANGED <<astVars, lspVars>>

\* opt(section_node)(input)?, pushed when present
DocSection ==
    /\ pc = "section"
    /\ PushOpt(opt(section_node(i), i))
    /\ pc' = "loop"
    /\ UNCHANGED <<s, root, iters>>
    /\ UNCHANGED <<astVars, lspVars>>

\* mutant: the loop pushes the headline and forgets `i = input`
PushHeadlineNoAdvance(r) ==
    IF ~r.ok
    THEN /\ pc' = "err"
         /\ UNCHANGED <<i, children>>
    ELSE /\ i' = i
         /\ children' = Append(children, r.out)
         /\ pc' = "loop"

\* mutant: the loop advances and forgets `children.push(headline)`
PushHeadlineDropped(r) ==
    IF ~r.ok
    THEN /\ pc' = "err"
         /\ UNCHANGED <<i, children>>
    ELSE IF ~(Len(i) > Len(r.rest))
    THEN /\ pc' = "panic"
         /\ UNCHANGED <<i, children>>
    ELSE /\ i' = r.rest
         /\ children' = children
         /\ pc' = "loop"

\* the `?`, the debug_assert and the push of one loop iteration
PushHeadline(r) ==
    IF ~r.ok
    THEN /\ pc' = "err"
         /\ UNCHANGED <<i, children>>
    ELSE IF ~(Len(i) > Len(r.rest))
    THEN /\ pc' = "panic"
         /\ UNCHANGED <<i, children>>
    ELSE /\ i' = r.rest
         /\ children' = Append(children, r.out)
         /\ pc' = "loop"

\* one iteration of: while !i.is_empty() { headline_node(i)? ... }
DocHeadlineLoop ==
    /\ pc = "loop"
    /\ i # <<>>
    /\ PushHeadline(headline_node(i))
    /\ iters' = iters + 1
    /\ UNCHANGED <<s, root>>
    /\ UNCHANGED <<astVars, lspVars>>

\* Ok((i, node(DOCUMENT, children)))
DocReturn ==
    /\ pc = "loop"
    /\ i = <<>>
    /\ root' = node("DOCUMENT", children)
    /\ pc' = "done"
    /\ UNCHANGED <<s, i, children, iters>>
    /\ UNCHANGED <<astVars, lspVars>>

Next ==
    \/ DocEmpty
    \/ DocPropertyDrawer
    \/ DocBlankLines
    \/ DocSection
    \/ DocHeadlineLoop
    \/ DocReturn

Init == InitParser

Spec == Init /\ [][Next]_vars

(***************************************************************************)
(* Typed view layer: Headline (src/ast/headline.rs).                       *)
(***************************************************************************)
None == [some |-> FALSE]
Some(v) == [some |-> TRUE, val |-> v]

\* index of the first child of n that is a token of one of kinds, 0 if none
FirstToken(n, kinds) ==
    IF \E k \in 1..Len(n.children) : ~IsNode(n.children[k]) /\ n.children[k].kind \in kinds
    THEN CHOOSE k \in 1..Len(n.children) :
             /\ ~IsNode(n.children[k]) /\ n.children[k].kind \in kinds
             /\ \A j \in 1..(k - 1) :
                    IsNode(n.children[j]) \/ n.children[j].kind \notin kinds
    ELSE 0

\* Headline::level: the length of the first HEADLINE_STARS token, 0 without one
level(h) ==
    IF FirstToken(h, {"HEADLINE_STARS"}) = 0 THEN 0
    ELSE Len(h.children[FirstToken(h, {"HEADLINE_STARS"})].text)

\* filter_token(kind) over children_with_tokens: the tokens of n of that kind
RECURSIVE TokensOfKind(_, _)
TokensOfKind(es, kind) ==
    IF es = <<>> THEN <<>>
    ELSE (IF ~IsNode(Head(es)) /\ Head(es).kind = kind THEN <<Head(es)>> ELSE <<>>)
         \o TokensOfKind(Tail(es), kind)

KEYWORDS == {"HEADLINE_KEYWORD_TODO", "HEADLINE_KEYWORD_DONE"}

\* Headline::todo_keyword: the first TODO or DONE keyword token
todo_keyword(h) ==
    IF FirstToken(h, KEYWORDS) = 0 THEN None
    ELSE Some(h.children[FirstToken(h, KEYWORDS)])

\* mutant: the DONE arm answers Todo as well
todo_type_done_as_todo(h) ==
    IF FirstToken(h, KEYWORDS) = 0 THEN None ELSE Some("Todo")

\* Headline::todo_type: find_map over the children, Todo or Done by the kind
\* of the first keyword token
todo_type(h) ==
    IF FirstToken(h, KEYWORDS) = 0 THEN None
    ELSE IF h.children[FirstToken(h, KEYWORDS)].kind = "HEADLINE_KEYWORD_TODO"
    THEN Some("Todo")
    ELSE Some("Done")

is_todo(h) == todo_type(h) = Some("Todo")

is_done(h) == todo_type(h) = Some("Done")

(***************************************************************************)
(* Typed view layer: PropertyDrawer (src/ast/drawer.rs).                   *)
(***************************************************************************)
\* the child nodes of kind NODE_PROPERTY, in source order
RECURSIVE node_properties(_)
node_properties(es) ==
    IF es = <<>> THEN <<>>
    ELSE (IF IsNode(Head(es)) /\ Head(es).kind = "NODE_PROPERTY" THEN <<Head(es)>> ELSE <<>>)
         \o node_properties(Tail(es))

\* Some((texts.next()?, texts.next()?)) of one property node
PairOf(texts) == IF Len(texts) >= 2 THEN <<<<texts[1], texts[2]>>>> ELSE <<>>

RECURSIVE PairsOf(_)
PairsOf(props) ==
    IF props = <<>> THEN <<>>
    ELSE PairOf(TokensOfKind(Head(props).children, "TEXT")) \o PairsOf(Tail(props))

\* PropertyDrawer::iter: the (key, value) token pairs, in source order
iter(d) == PairsOf(node_properties(d.children))

RECURSIVE FindValue(_, _)
FindValue(pairs, key) ==
    IF pairs = <<>> THEN None
    ELSE IF Head(pairs)[1].text = key THEN Some(Head(pairs)[2])
    ELSE FindValue(Tail(pairs), key)

RECURSIVE FindLastValue(_, _)
FindLastValue(pairs, key) ==
    IF pairs = <<>> THEN None
    ELSE IF pairs[Len(pairs)][1].text = key THEN Some(pairs[Len(pairs)][2])
    ELSE FindLastValue(SubSeq(pairs, 1, Len(pairs) - 1), key)

\* mutant: the search runs from the back
get_last(d, key) == FindLastValue(iter(d), key)

\* PropertyDrawer::get: find_map over iter(), the value of the first pair
\* whose key's text is key
get(d, key) == FindValue(iter(d), key)

\* HashMap::insert: the entry of an equal key is overwritten
Insert(map, k, v) ==
    [x \in DOMAIN map \cup {k.text} |-> IF x = k.text THEN v ELSE map[x]]

\* an insert that keeps the entry of an equal key
InsertIfAbsent(map, k, v) == IF k.text \in DOMAIN map THEN map ELSE Insert(map, k, v)

RECURSIVE CollectMap(_, _)
CollectMap(pairs, map) ==
    IF pairs = <<>> THEN map
    ELSE CollectMap(Tail(pairs), Insert(map, Head(pairs)[1], Head(pairs)[2]))

RECURSIVE CollectMapFirst(_, _)
CollectMapFirst(pairs, map) ==
    IF pairs = <<>> THEN map
    ELSE CollectMapFirst(Tail(pairs), InsertIfAbsent(map, Head(pairs)[1], Head(pairs)[2]))

\* mutant: the first pair of a key wins
to_hash_map_first(d) == CollectMapFirst(iter(d), <<>>)

\* PropertyDrawer::to_hash_map: iter().collect(), a map from key text to value
to_hash_map(d) == CollectMap(iter(d), <<>>)

\* IndexMap::insert: an equal key keeps its position and takes the new value
IndexInsert(entries, k, v) ==
    IF \E n \in 1..Len(entries) : entries[n][1].text = k.text
    THEN [n \in 1..Len(entries) |->
             IF entries[n][1].text = k.text THEN <<entries[n][1], v>> ELSE entries[n]]
    ELSE Append(entries, <<k, v>>)

RECURSIVE CollectIndexMap(_, _)
CollectIndexMap(pairs, entries) ==
    IF pairs = <<>> THEN entries
    ELSE CollectIndexMap(Tail(pairs), IndexInsert(entries, Head(pairs)[1], Head(pairs)[2]))

\* PropertyDrawer::to_index_map: iter().collect(), the entries in insertion order
to_index_map(d) == CollectIndexMap(iter(d), <<>>)

(***************************************************************************)
(* The accessors, called on syntax nodes drawn from bounded sets.          *)
(***************************************************************************)
\* a property drawer has at most MaxProperties property nodes
MaxProperties == 3
\* a headline has at most MaxChildren children
MaxChildren == 3

KEY_ID == <<"I", "D">>
KEY_CUSTOM_ID == <<"C", "I", "D">>
Keys == {KEY_ID, KEY_CUSTOM_ID}

\* what follows ":KEY:" on a property line
Afters == {<<>>, <<" ">>, <<" ", "v">>, <<" ", "w">>}

PropertyNodes ==
    {node("NODE_PROPERTY", PropertyTokens(k, a) \o <<token("NEW_LINE", <<NL>>)>>) :
        k \in Keys, a \in Afters}

RECURSIVE SeqsUpTo(_, _)
\* the sequences of at most n elements of S
SeqsUpTo(S, n) ==
    IF n = 0 THEN { <<>> }
    ELSE LET shorter == SeqsUpTo(S, n - 1) IN
         shorter \cup { <<e>> \o q : e \in S, q \in shorter }

PropertyDrawers ==
    {node("PROPERTY_DRAWER",
          <<MarkerNode("DRAWER_BEGIN", <<":">> \o PROPERTIES \o <<":", NL>>, PROPERTIES)>>
          \o ps
          \o <<MarkerNode("DRAWER_END", <<":", "E", "N", "D", ":">>, <<"E", "N", "D">>)>>) :
        ps \in SeqsUpTo(PropertyNodes, MaxProperties)}

HeadlineChildren ==
    { token("HEADLINE_STARS", <<"*">>),
      token("HEADLINE_KEYWORD_TODO", <<"T", "O", "D", "O">>),
      token("HEADLINE_KEYWORD_DONE", <<"D", "O", "N", "E">>),
      node("HEADLINE_TITLE", <<token("TEXT", <<"a">>)>>),
      node("HEADLINE", << token("HEADLINE_STARS", <<"*", "*">>),
                          token("HEADLINE_KEYWORD_DONE", <<"D", "O", "N", "E">>) >>) }

Headlines == {node("HEADLINE", cs) : cs \in SeqsUpTo(HeadlineChildren, MaxChildren)}

InitAst ==
    /\ tree \in PropertyDrawers \cup Headlines
    /\ ret = NoCall
    /\ s = <<>>
    /\ i = <<>>
    /\ children = <<>>
    /\ pc = "ast"
    /\ root = NoElem
    /\ iters = 0
    /\ documents = <<>>
    /\ response = NoCall

Returns(op, arg, val) ==
    /\ ret' = [op |-> op, arg |-> arg, val |-> val]
    /\ UNCHANGED <<tree, parserVars, lspVars>>

CallIter == tree.kind = "PROPERTY_DRAWER" /\ Returns("iter", <<>>, iter(tree))

CallGet ==
    /\ tree.kind = "PROPERTY_DRAWER"
    /\ \E key \in Keys \cup {<<"v">>} : Returns("get", key, get(tree, key))

CallToHashMap ==
    tree.kind = "PROPERTY_DRAWER" /\ Returns("to_hash_map", <<>>, to_hash_map(tree))

CallToIndexMap ==
    tree.kind = "PROPERTY_DRAWER" /\ Returns("to_index_map", <<>>, to_index_map(tree))

CallTodoKeyword ==
    tree.kind = "HEADLINE" /\ Returns("todo_keyword", <<>>, todo_keyword(tree))

CallTodoType == tree.kind = "HEADLINE" /\ Returns("todo_type", <<>>, todo_type(tree))

CallIsTodo == tree.kind = "HEADLINE" /\ Returns("is_todo", <<>>, is_todo(tree))

CallIsDone == tree.kind = "HEADLINE" /\ Returns("is_done", <<>>, is_done(tree))

NextAst ==
    \/ CallIter
    \/ CallGet
    \/ CallToHashMap
    \/ CallToIndexMap
    \/ CallTodoKeyword
    \/ CallTodoType
    \/ CallIsTodo
    \/ CallIsDone

SpecAst == InitAst /\ [][NextAst]_vars

(***************************************************************************)
(* Claims about document_node.                                             *)
(***************************************************************************)
Kinds(es) == [k \in 1..Len(es) |-> es[k].kind]

\* C1: when document_node returns, the depth-first concatenation of the
\* tree's leaves is the input, and the root's cached length, hence its text
\* range [0, len), spans the whole input.
RoundTrip == pc = "done" => Text(root) = s /\ root.len = Len(s)

\* a returned document with a drawer or blank lines, and more after them
RoundTripWitness ==
    /\ pc = "done"
    /\ Len(root.children) >= 3
    /\ root.children[1].kind \in {"PROPERTY_DRAWER", "BLANK_LINE"}
    /\ root.children[Len(root.children)].kind = "HEADLINE"

\* C2: document_node is never at an error return nor at a failed assertion,
\* and what it returns is a DOCUMENT node together with an empty remaining
\* input.
Totality ==
    /\ pc \in {"entry", "property_drawer", "blank_lines", "section", "loop", "done"}
    /\ pc = "done" => root.kind = "DOCUMENT" /\ IsNode(root) /\ i = <<>>

\* a returned document whose input starts with a star and is no headline
TotalityWitness ==
    /\ pc = "done"
    /\ s # <<>>
    /\ s[1] = "*"
    /\ root.children[1].kind = "SECTION"

\* C3: the debug assertion of the headline loop never fails, and every
\* iteration consumes at least one byte: the iterations run so far and the
\* bytes still to read never exceed the input's length together.
MonotonicConsumption ==
    /\ pc # "panic"
    /\ iters + Len(i) <= Len(s)

\* the loop has returned after at least two iterations
MonotonicConsumptionWitness == pc = "done" /\ iters >= 2

RECURSIVE HeadlineList(_)
RECURSIVE HeadlineListOfAll(_)
\* the HEADLINE nodes of e in source order, each with its level and the
\* number of HEADLINE nodes nested in it
HeadlineList(e) ==
    IF ~IsNode(e) THEN <<>>
    ELSE IF e.kind = "HEADLINE"
    THEN <<[level |-> level(e), size |-> Len(HeadlineListOfAll(e.children))]>>
         \o HeadlineListOfAll(e.children)
    ELSE HeadlineListOfAll(e.children)
HeadlineListOfAll(es) ==
    IF es = <<>> THEN <<>> ELSE HeadlineList(Head(es)) \o HeadlineListOfAll(Tail(es))

RECURSIVE ScanLevels(_)
\* the levels of the lines of t that start a headline
ScanLevels(t) ==
    IF t = <<>> THEN <<>>
    ELSE (IF headline_stars(t).ok THEN <<RunLen(t, "*")>> ELSE <<>>)
         \o ScanLevels(Drop(t, LineLen(t)))

\* how many of the headlines after the k-th come before the next one whose
\* level is not greater than the k-th's
Owned(L, k) ==
    IF \E j \in (k + 1)..Len(L) : L[j] <= L[k]
    THEN (CHOOSE j \in (k + 1)..Len(L) :
              L[j] <= L[k] /\ \A m \in (k + 1)..(j - 1) : L[m] > L[k]) - k - 1
    ELSE Len(L) - k

HierarchyOf(H, top) ==
    /\ [k \in 1..Len(H) |-> H[k].level] = ScanLevels(s)
    /\ \A k \in 1..Len(H) : H[k].size = Owned([m \in 1..Len(H) |-> H[m].level], k)
    /\ top = Cardinality({k \in 1..Len(H) :
                             \A j \in 1..(k - 1) : k > j + H[j].size})

\* C4: the HEADLINE nodes of the returned tree are the headline lines of the
\* input in source order; each has nested in it exactly the headlines that
\* follow it up to the next one of the same or a shallower level; and the
\* HEADLINE children of DOCUMENT are the headlines nested in no other.
HierarchyContainment ==
    pc = "done" =>
        HierarchyOf(HeadlineList(root),
                    Cardinality({k \in 1..Len(root.children) :
                                    root.children[k].kind = "HEADLINE"}))

HierarchyWitnessOf(H) ==
    \E k \in 1..Len(H) : H[k].size >= 1 /\ k + H[k].size < Len(H)

\* a headline with a nested headline and with a sibling after them
HierarchyContainmentWitness == pc = "done" /\ HierarchyWitnessOf(HeadlineList(root))

RECURSIVE Spans(_, _, _, _)
RECURSIVE SpansOfAll(_, _, _, _)
\* every element of the tree with its text range, its parent's kind and its
\* grandparent's
Spans(e, start, parent, grand) ==
    {[kind |-> e.kind, start |-> start, end |-> start + ElemLen(e),
      parent |-> parent, grand |-> grand]}
    \cup (IF IsNode(e) THEN SpansOfAll(e.children, start, e.kind, parent) ELSE {})
SpansOfAll(es, start, parent, grand) ==
    IF es = <<>> THEN {}
    ELSE Spans(Head(es), start, parent, grand)
         \cup SpansOfAll(Tail(es), start + ElemLen(Head(es)), parent, grand)

\* the offsets of the lines of t that begin with stars followed by a
\* character that is neither whitespace nor the end of the line
MalformedStarLines(t) ==
    {p \in 0..(Len(t) - 1) :
        /\ p = 0 \/ t[p] = NL
        /\ RunLen(Drop(t, p), "*") >= 1
        /\ Len(t) > p + RunLen(Drop(t, p), "*")
        /\ t[p + RunLen(Drop(t, p), "*") + 1] \notin {" ", NL}}

AbsorbedAsText(t, sp, p) ==
    /\ \A h \in sp : h.start = p => h.kind \notin {"HEADLINE", "HEADLINE_STARS"}
    /\ \E x \in sp :
           /\ x.kind = "TEXT" /\ x.parent = "PARAGRAPH" /\ x.grand = "SECTION"
           /\ x.start <= p
           /\ p + Len(LineBody(Drop(t, p))) <= x.end

\* C5: the parse succeeds, and a line that begins with stars not followed by
\* whitespace starts no HEADLINE node: the whole line lies in a TEXT token of
\* a PARAGRAPH of a SECTION.
MalformedStarFallback ==
    /\ pc # "err"
    /\ pc = "done" =>
           \A p \in MalformedStarLines(s) :
               AbsorbedAsText(s, Spans(root, 0, "NONE", "NONE"), p)

\* a malformed star line in the section of an enclosing headline
MalformedStarFallbackWitness ==
    /\ pc = "done"
    /\ root.children # <<>>
    /\ root.children[1].kind = "HEADLINE"
    /\ MalformedStarLines(s) # {}

Rank(kind) ==
    CASE kind = "PROPERTY_DRAWER" -> 1
      [] kind = "BLANK_LINE" -> 2
      [] kind = "SECTION" -> 3
      [] kind = "HEADLINE" -> 4
      [] OTHER -> 0

\* the input is used up by the leading property drawer and blank lines
ExhaustedAfterBlank(t) == blank_lines(opt(property_drawer_node(t), t).rest).rest = <<>>

ChildOrderOf(K) ==
    /\ \A k \in 1..Len(K) : Rank(K[k]) > 0
    /\ \A j, k \in 1..Len(K) : j < k => Rank(K[j]) <= Rank(K[k])
    /\ Cardinality({k \in 1..Len(K) : K[k] = "PROPERTY_DRAWER"}) <= 1
    /\ Cardinality({k \in 1..Len(K) : K[k] = "SECTION"}) <= 1
    /\ s = <<>> => K = <<>>
    /\ ExhaustedAfterBlank(s) => \A k \in 1..Len(K) : K[k] \notin {"SECTION", "HEADLINE"}

\* C10: the children of the returned DOCUMENT are at most one
\* PROPERTY_DRAWER, then BLANK_LINEs, then at most one SECTION, then
\* HEADLINEs; none at all for the empty input; no SECTION and no HEADLINE
\* when the drawer and the blank lines use up the input.
DocumentChildOrder == pc = "done" => ChildOrderOf(Kinds(root.children))

\* a property drawer followed by blank lines that use up the input
DocumentChildOrderWitness ==
    /\ pc = "done"
    /\ Kinds(root.children) = <<"PROPERTY_DRAWER", "BLANK_LINE">>

(***************************************************************************)
(* Claims about the typed view layer.                                      *)
(***************************************************************************)
KeysOf(pairs) == {pairs[n][1].text : n \in 1..Len(pairs)}

\* the pairs that no later pair of the same key follows
LastOfKey(pairs) ==
    {n \in 1..Len(pairs) :
        \A m \in (n + 1)..Len(pairs) : pairs[m][1].text # pairs[n][1].text}

\* the pairs that no earlier pair of the same key precedes
FirstOfKey(pairs) ==
    {n \in 1..Len(pairs) : \A m \in 1..(n - 1) : pairs[m][1].text # pairs[n][1].text}

HashMapLastWins(map, pairs) ==
    /\ DOMAIN map = KeysOf(pairs)
    /\ \A n \in LastOfKey(pairs) : map[pairs[n][1].text] = pairs[n][2]

IndexMapLastWins(entries, pairs) ==
    /\ KeysOf(entries) = KeysOf(pairs)
    /\ Len(entries) = Cardinality(KeysOf(pairs))
    /\ \A n \in LastOfKey(pairs) :
           \E e \in 1..Len(entries) :
               entries[e][1].text = pairs[n][1].text /\ entries[e][2] = pairs[n][2]
    /\ \A e, f \in 1..Len(entries) :
           e < f => \E n, m \in FirstOfKey(pairs) :
                        /\ n < m
                        /\ pairs[n][1].text = entries[e][1].text
                        /\ pairs[m][1].text = entries[f][1].text

\* C7: to_hash_map() and to_index_map() hold exactly one entry per distinct
\* key that iter() yields, with the value of the last pair of that key; the
\* index map keeps the keys in the order of their first pairs.
PropertyMapLastWins ==
    /\ ret.op = "to_hash_map" => HashMapLastWins(ret.val, iter(tree))
    /\ ret.op = "to_index_map" => IndexMapLastWins(ret.val, iter(tree))

\* a drawer with two pairs of one key and different values, collected into
\* a map of one entry
PropertyMapLastWinsWitness ==
    /\ ret.op = "to_hash_map"
    /\ Cardinality(DOMAIN ret.val) = 1
    /\ Len(iter(tree)) = 2
    /\ iter(tree)[1][2] # iter(tree)[2][2]

\* the property nodes with two TEXT tokens, the first of them key
Answering(props, key) ==
    {n \in 1..Len(props) :
        /\ Len(TokensOfKind(props[n].children, "TEXT")) >= 2
        /\ TokensOfKind(props[n].children, "TEXT")[1].text = key}

Least(S) == CHOOSE n \in S : \A m \in S : n <= m

FirstAnswer(props, key) ==
    IF Answering(props, key) = {} THEN None
    ELSE Some(TokensOfKind(props[Least(Answering(props, key))].children, "TEXT")[2])

\* C8: get(k) is the value of the first property node, in source order, that
\* holds two TEXT tokens and whose first TEXT token is k, and None when there
\* is no such node; a node with fewer than two TEXT tokens never answers.
PropertyGetFirstWins ==
    ret.op = "get" => ret.val = FirstAnswer(node_properties(tree.children), ret.arg)

\* get answered by the second of three property nodes of its key: the first
\* has no value, the third has another value
PropertyGetFirstWinsWitness ==
    /\ ret.op = "get"
    /\ ret.val = Some(token("TEXT", <<"v">>))
    /\ Len(node_properties(tree.children)) = 3
    /\ Answering(node_properties(tree.children), ret.arg) = {2, 3}
    /\ TokensOfKind(node_properties(tree.children)[1].children, "TEXT")[1].text = ret.arg
    /\ get(tree, ret.arg) # FindLastValue(iter(tree), ret.arg)

RECURSIVE KeywordKinds(_)
\* the kinds of the keyword tokens among the elements es, in order
KeywordKinds(es) ==
    IF es = <<>> THEN <<>>
    ELSE (IF ~IsNode(Head(es)) /\ Head(es).kind \in KEYWORDS
          THEN <<Head(es).kind>> ELSE <<>>)
         \o KeywordKinds(Tail(es))

TypeOfKinds(kw) ==
    IF kw = <<>> THEN None
    ELSE IF kw[1] = "HEADLINE_KEYWORD_TODO" THEN Some("Todo")
    ELSE Some("Done")

\* C9: todo_type() is Todo or Done by the kind of the first keyword token
\* among the headline's direct children and None without one; todo_keyword()
\* is Some exactly when todo_type() is; is_todo() and is_done() answer by
\* that type, are never both true, and are both false without a keyword.
TodoClassification ==
    /\ ret.op = "todo_type" => ret.val = TypeOfKinds(KeywordKinds(tree.children))
    /\ ret.op = "todo_keyword" => ret.val.some = todo_type(tree).some
    /\ ret.op = "is_todo" =>
           /\ ret.val = (TypeOfKinds(KeywordKinds(tree.children)) = Some("Todo"))
           /\ ~(ret.val /\ is_done(tree))
    /\ ret.op = "is_done" =>
           /\ ret.val = (TypeOfKinds(KeywordKinds(tree.children)) = Some("Done"))
           /\ ~(ret.val /\ is_todo(tree))

\* a headline whose first keyword token is DONE and whose next one is TODO
TodoClassificationWitness ==
    /\ ret.op = "todo_type"
    /\ ret.val = Some("Done")
    /\ KeywordKinds(tree.children) = <<"HEADLINE_KEYWORD_DONE", "HEADLINE_KEYWORD_TODO">>

(***************************************************************************)
(* Language server: completion (orgize-lsp/src/completion.rs).             *)
(***************************************************************************)
\* a document has at most MaxTextLen characters
MaxTextLen == 3

\* the characters of a document: "é" takes two bytes and one UTF-16 unit
LspChars == {"<", "a", "I", "é", NL}

Utf8(c) == IF c = "é" THEN <<"C3", "A9">> ELSE <<c>>

RECURSIVE Bytes(_)
\* the UTF-8 bytes of a text
Bytes(text) == IF text = <<>> THEN <<>> ELSE Utf8(Head(text)) \o Bytes(Tail(text))

\* the number of characters before the start of the given line
LineStart(text, line) ==
    IF line = 0 THEN 0
    ELSE CHOOSE k \in 1..Len(text) :
             text[k] = NL /\ Cardinality({j \in 1..k : text[j] = NL}) = line

\* the positions inside a text: a line and a count of UTF-16 units in it
Positions(text) ==
    {p \in [line : 0..Len(text), character : 0..Len(text)] :
        /\ p.line <= Cardinality({k \in 1..Len(text) : text[k] = NL})
        /\ LineStart(text, p.line) + p.character <= Len(text)
        /\ \A k \in (LineStart(text, p.line) + 1)..(LineStart(text, p.line) + p.character) :
               text[k] # NL}

\* Document::offset_of: the byte offset of a line/character position
offset_of(text, position) ==
    Len(Bytes(Take(text, LineStart(text, position.line) + position.character)))

IsCharBoundary(bytes, k) == k = 0 \/ k = Len(bytes) \/ (k < Len(bytes) /\ bytes[k + 1] # "A9")

\* str::get(a..b): the bytes [a, b) when both ends are character boundaries
str_get(bytes, a, b) ==
    IF a <= b /\ b <= Len(bytes) /\ IsCharBoundary(bytes, a) /\ IsCharBoundary(bytes, b)
    THEN Some(SubSeq(bytes, a + 1, b))
    ELSE None

Block(label, new_text) == Some([label |-> label, new_text |-> new_text])

\* the arms of `match filter_text`
Template(filter_text) ==
    CASE filter_text = <<"<", "a">> ->
             Block("ASCI export block", "#+BEGIN_EXPORT ascii\n\n#+END_EXPORT\n")
      [] filter_text = <<"<", "c">> -> Block("Center block", "#+BEGIN_CENTER\n\n#+END_CENTER\n")
      [] filter_text = <<"<", "C">> ->
             Block("Comment block", "#+BEGIN_COMMENT\n\n#+END_COMMENT\n")
      [] filter_text = <<"<", "e">> ->
             Block("Example block", "#+BEGIN_EXAMPLE\n\n#+END_EXAMPLE\n")
      [] filter_text = <<"<", "E">> -> Block("Export block", "#+BEGIN_EXPORT\n\n#+END_EXPORT\n")
      [] filter_text = <<"<", "h">> ->
             Block("HTML export block", "#+BEGIN_EXPORT html\n\n#+END_EXPORT\n")
      [] filter_text = <<"<", "l">> ->
             Block("LaTeX export block", "#+BEGIN_EXPORT latex\n\n#+END_EXPORT\n")
      [] filter_text = <<"<", "q">> -> Block("Quote block", "#+BEGIN_QUOTE\n\n#+END_QUOTE\n")
      [] filter_text = <<"<", "s">> -> Block("Source block", "#+BEGIN_SRC\n\n#+END_SRC\n")
      [] filter_text = <<"<", "v">> -> Block("Verse block", "#+BEGIN_VERSE\n\n#+END_VERSE\n")
      [] OTHER -> None

\* Some(CompletionResponse::Array(vec![CompletionItem { .. }]))
CompletionItemOf(filter_text, block, end) ==
    IF ~block.some THEN None
    ELSE Some(<<[label |-> block.val.label,
                 kind |-> "TEXT",
                 insert_text |-> block.val.new_text,
                 filter_text |-> filter_text,
                 text_edit |->
                     [new_text |-> block.val.new_text,
                      range |-> [start |-> [line |-> end.line,
                                            character |-> end.character - 2],
                                 end |-> end]]]>>)

CompletionOf(filter_text, end) ==
    IF ~filter_text.some THEN None
    ELSE CompletionItemOf(filter_text.val, Template(filter_text.val), end)

CompletionAt(text, position, offset) ==
    IF offset < 2 THEN None
    ELSE CompletionOf(str_get(Bytes(text), offset - 2, offset), position)

completion(uri, position) ==
    IF uri \notin DOMAIN documents THEN None
    ELSE CompletionAt(documents[uri], position, offset_of(documents[uri], position))

trigger_characters ==
    << <<"<", "a">>, <<"<", "c">>, <<"<", "C">>, <<"<", "e">>, <<"<", "E">>, <<"<", "h">>,
       <<"<", "l">>, <<"<", "q">>, <<"<", "s">>, <<"<", "v">>, <<"<", "I">> >>

OPEN_URI == "file:///open.org"
OTHER_URI == "file:///other.org"

InitCompletion ==
    /\ documents \in {[u \in {OPEN_URI} |-> t] : t \in SeqsUpTo(LspChars, MaxTextLen)}
    /\ response = NoCall
    /\ tree = NoElem
    /\ ret = NoCall
    /\ s = <<>>
    /\ i = <<>>
    /\ children = <<>>
    /\ pc = "lsp"
    /\ root = NoElem
    /\ iters = 0

\* a completion request for a position of the open document's text
Completion ==
    /\ \E uri \in {OPEN_URI, OTHER_URI}, position \in Positions(documents[OPEN_URI]) :
           response' = [op |-> "completion", uri |-> uri, position |-> position,
                        val |-> completion(uri, position)]
    /\ UNCHANGED <<documents, astVars, parserVars>>

NextCompletion == Completion

SpecCompletion == InitCompletion /\ [][NextCompletion]_vars

(***************************************************************************)
(* Claims about completion.                                                *)
(***************************************************************************)
\* the request names an open document and the two bytes before the cursor
\* are one of the strings of trigger_characters()
Triggered(uri, position) ==
    /\ uri \in DOMAIN documents
    /\ offset_of(documents[uri], position) >= 2
    /\ \E n \in 1..Len(trigger_characters) :
           SubSeq(Bytes(documents[uri]),
                  offset_of(documents[uri], position) - 1,
                  offset_of(documents[uri], position)) = trigger_characters[n]

\* the response is one suggestion whose edit puts a template in the place of
\* the two bytes before the cursor
Suggests(val, uri, position) ==
    /\ val.some
    /\ Len(val.val) = 1
    /\ val.val[1].text_edit.range.end = position
    /\ uri \in DOMAIN documents
    /\ offset_of(documents[uri], val.val[1].text_edit.range.start)
           = offset_of(documents[uri], position) - 2
    /\ val.val[1].text_edit.new_text = Template(val.val[1].filter_text).val.new_text

\* C6: completion answers with exactly one suggestion, replacing the two
\* bytes before the cursor by the template, if and only if those two bytes
\* are one of the strings of trigger_characters(); otherwise with none.
CompletionContract ==
    response.op = "completion" =>
        /\ Suggests(response.val, response.uri, response.position)
               <=> Triggered(response.uri, response.position)
        /\ ~Suggests(response.val, response.uri, response.position) => response.val = None

(***************************************************************************)
(* Drawer and PropertyDrawer: the bounds of the content                    *)
(* (src/ast/drawer.rs).                                                    *)
(***************************************************************************)
\* a drawer starts at most MaxStart bytes into the document
MaxStart == 2

\* a syntax node: a branch together with the offset of its first byte
Cursor(green, start) == [green |-> green, start |-> start]

text_range(c) == [start |-> c.start, end |-> c.start + c.green.len]

RECURSIVE ChildCursors(_, _)
\* the child nodes of a branch in source order, tokens left out, the first
\* element of es starting at offset at
ChildCursors(es, at) ==
    IF es = <<>> THEN <<>>
    ELSE (IF IsNode(Head(es)) THEN <<Cursor(Head(es), at)>> ELSE <<>>)
         \o ChildCursors(Tail(es), at + ElemLen(Head(es)))

FirstOf(cs) == IF cs = <<>> THEN None ELSE Some(cs[1])

LastOf(cs) == IF cs = <<>> THEN None ELSE Some(cs[Len(cs)])

first_child(c) == FirstOf(ChildCursors(c.green.children, c.start))

last_child(c) == LastOf(ChildCursors(c.green.children, c.start))

\* first.map(|n| n.text_range().end()).unwrap_or_else(|| range.start())
EndOrStart(first, range) == IF first.some THEN text_range(first.val).end ELSE range.start

\* last.map(|n| n.text_range().start()).unwrap_or_else(|| range.end())
StartOrEnd(last, range) == IF last.some THEN text_range(last.val).start ELSE range.end

PropertyDrawer_content_start(d) == EndOrStart(first_child(d), text_range(d))

PropertyDrawer_content_end(d) == StartOrEnd(last_child(d), text_range(d))

Drawer_content_start(d) == EndOrStart(first_child(d), text_range(d))

Drawer_content_end(d) == StartOrEnd(last_child(d), text_range(d))

LOGBOOK == <<"L", "O", "G", "B", "O", "O", "K">>

END == <<"E", "N", "D">>

\* the opening line, present or (a drawer without a name line) missing
Begins(name) == { <<>>, <<MarkerNode("DRAWER_BEGIN", <<":">> \o name \o <<":", NL>>, name)>> }

\* the closing line, present or (an unterminated drawer) missing
Ends == { <<>>, <<MarkerNode("DRAWER_END", <<":">> \o END \o <<":", NL>>, END)>> }

\* the inner lines of a drawer: none, an empty content node, or one line
DrawerContents ==
    { <<>>,
      <<node("DRAWER_CONTENT", <<>>)>>,
      <<node("DRAWER_CONTENT", <<token("TEXT", <<"a">>), token("NEW_LINE", <<NL>>)>>)>> }

\* the property lines of a property drawer
ContentProperties ==
    {node("NODE_PROPERTY", PropertyTokens(KEY_ID, a) \o <<token("NEW_LINE", <<NL>>)>>) :
        a \in {<<>>, <<" ", "v">>}}

\* what follows the drawer inside its node: nothing or a blank line token
Trailers == { <<>>, <<token("BLANK_LINE", <<NL>>)>> }

DrawerNodes ==
    {node("DRAWER", b \o c \o e \o t) :
        b \in Begins(LOGBOOK), c \in DrawerContents, e \in Ends, t \in Trailers}

PropertyDrawerNodes ==
    {node("PROPERTY_DRAWER", b \o ps \o e \o t) :
        b \in Begins(PROPERTIES), ps \in SeqsUpTo(ContentProperties, MaxProperties),
        e \in Ends, t \in Trailers}

\* no bound of the content asked for yet
NoBounds == [start |-> None, end |-> None]

InitDrawer ==
    /\ tree \in {Cursor(g, at) : g \in DrawerNodes \cup PropertyDrawerNodes, at \in 0..MaxStart}
    /\ ret = NoBounds
    /\ s = <<>>
    /\ i = <<>>
    /\ children = <<>>
    /\ pc = "drawer"
    /\ root = NoElem
    /\ iters = 0
    /\ documents = <<>>
    /\ response = NoCall

ReturnsStart(val) ==
    /\ ret' = [ret EXCEPT !.start = Some(val)]
    /\ UNCHANGED <<tree, parserVars, lspVars>>

ReturnsEnd(val) ==
    /\ ret' = [ret EXCEPT !.end = Some(val)]
    /\ UNCHANGED <<tree, parserVars, lspVars>>

CallPropertyDrawerContentStart ==
    tree.green.kind = "PROPERTY_DRAWER" /\ ReturnsStart(PropertyDrawer_content_start(tree))

CallPropertyDrawerContentEnd ==
    tree.green.kind = "PROPERTY_DRAWER" /\ ReturnsEnd(PropertyDrawer_content_end(tree))

CallDrawerContentStart ==
    tree.green.kind = "DRAWER" /\ ReturnsStart(Drawer_content_start(tree))

CallDrawerContentEnd ==
    tree.green.kind = "DRAWER" /\ ReturnsEnd(Drawer_content_end(tree))

NextDrawer ==
    \/ CallPropertyDrawerContentStart
    \/ CallPropertyDrawerContentEnd
    \/ CallDrawerContentStart
    \/ CallDrawerContentEnd

SpecDrawer == InitDrawer /\ [][NextDrawer]_vars

(***************************************************************************)
(* Claims about the bounds of a drawer's content.                          *)
(***************************************************************************)
\* the number of child nodes of the drawer
ChildNodeCount(c) == Len(ChildCursors(c.green.children, c.start))

Inside(offset, range) == range.start <= offset /\ offset <= range.end

\* from the end of the first child node to the start of the last child node
BoundsInner(c, from, to) ==
    ChildNodeCount(c) > 0 =>
        /\ from = ChildCursors(c.green.children, c.start)[1].start
                    + ChildCursors(c.green.children, c.start)[1].green.len
        /\ to = ChildCursors(c.green.children, c.start)[ChildNodeCount(c)].start

\* C11: for every Drawer and PropertyDrawer node, whatever the number of its
\* child nodes (none and one included), content_start() <= content_end(),
\* both lie inside the node's text_range(), and they run from the end of the
\* first child node to the start of the last child node.
DrawerContentBounds ==
    /\ ret.start.some => Inside(ret.start.val, text_range(tree))
    /\ ret.end.some => Inside(ret.end.val, text_range(tree))
    /\ ret.start.some /\ ret.end.some =>
           /\ ret.start.val <= ret.end.val
           /\ BoundsInner(tree, ret.start.val, ret.end.val)

====
